---- MODULE Spec2Model ----
(***************************************************************************)
(* Model of scripts/polymarket/fetch_polymarket.py: the slug extractor,    *)
(* the two-step Gamma API lookup, the market/event normalizers and the     *)
(* text renderer, together with the command-line entry point.              *)
(*                                                                         *)
(* Python values are tagged records (see Mk).  A Python str is a TLA+      *)
(* string, i.e. a sequence of characters on which Len, SubSeq and \o act.  *)
(* A float is an integer number of thousandths (0.7 is 700), so inputs     *)
(* carry at most three decimals.                                           *)
(***************************************************************************)
EXTENDS Integers, Sequences, FiniteSets, TLC

VARIABLES
  pc,               \* where the run stands
  argv,             \* sys.argv: the script name, then the arguments
  pieces,           \* the pieces a generated url was put together from
  url,              \* the argument of fetch_polymarket_data
  slug,             \* what extract_slug returned
  calls,            \* the requests.get calls made so far, in order
  inflight,         \* the call that has started and not yet returned
  event_response,   \* the response of the events call
  market_response,  \* the response of the markets call
  result,           \* what fetch_polymarket_data returned
  exception,        \* the exception that ended the run, if any
  stdout,           \* the texts printed to standard output, in order
  stderr,           \* the texts written to standard error, in order
  exit_code,        \* the exit status, -1 while the process runs
  transport_failed  \* a requests call raised instead of returning

vars == <<pc, argv, pieces, url, slug, calls, inflight, event_response,
          market_response, result, exception, stdout, stderr, exit_code,
          transport_failed>>

-----------------------------------------------------------------------------
(* Python values *)

Mk(t, s, n, l, ks) == [t |-> t, s |-> s, n |-> n, l |-> l, ks |-> ks]

\* a key that a mapping does not hold (the second argument of dict.get decides)
VAbsent == Mk("absent", "", 0, <<>>, <<>>)
VNone == Mk("none", "", 0, <<>>, <<>>)
VStr(s) == Mk("str", s, 0, <<>>, <<>>)
VNum(n) == Mk("num", "", n, <<>>, <<>>)
VBool(b) == Mk("bool", "", IF b THEN 1 ELSE 0, <<>>, <<>>)
VList(l) == Mk("list", "", 0, l, <<>>)
\* a dict keeps its insertion order: keys ks (values themselves), values l,
\* position by position
VDict(ks, l) == Mk("dict", "", 0, l, ks)
\* an uncaught exception of class e
Raise(e) == Mk("raise", e, 0, <<>>, <<>>)

IsRaise(v) == v.t = "raise"

Ch(s, i) == IF i >= 1 /\ i <= Len(s) THEN SubSeq(s, i, i) ELSE ""

\* s[i-1:j] of Python: the characters at the 1-based positions i..j that exist
Slice(s, i, j) ==
  LET a == IF i < 1 THEN 1 ELSE i
      b == IF j > Len(s) THEN Len(s) ELSE j
  IN IF a > b THEN "" ELSE SubSeq(s, a, b)

RECURSIVE IndexOf(_, _, _)
\* str.find(c, i) with 1-based positions; 0 when c does not occur from i on
IndexOf(s, c, i) ==
  IF i > Len(s) THEN 0
  ELSE IF Ch(s, i) = c THEN i
  ELSE IndexOf(s, c, i + 1)

RECURSIVE KeyIndex(_, _, _)
KeyIndex(ks, k, i) ==
  IF i > Len(ks) THEN 0
  ELSE IF ks[i] = k THEN i
  ELSE KeyIndex(ks, k, i + 1)

\* the value at position i of d, default when i is 0
ValueAt(d, i, default) == IF i = 0 THEN default ELSE d.l[i]

\* d.get(k, default)
DictGet(d, k, default) == ValueAt(d, KeyIndex(d.ks, k, 1), default)

\* d with v at position i, with k: v appended when i is 0
SetAt(d, i, k, v) ==
  IF i = 0 THEN VDict(Append(d.ks, k), Append(d.l, v))
  ELSE VDict(d.ks, [d.l EXCEPT ![i] = v])

\* d[k] = v of a dict under construction: a new key is appended, an old one
\* keeps its position and takes the new value
DictSet(d, k, v) == SetAt(d, KeyIndex(d.ks, k, 1), k, v)

\* bool(v): the truth value Python gives a value
Truthy(v) ==
  CASE v.t = "str" -> v.s # ""
    [] v.t = "num" -> v.n # 0
    [] v.t = "bool" -> v.n # 0
    [] v.t = "list" -> v.l # <<>>
    [] v.t = "dict" -> v.ks # <<>>
    [] OTHER -> FALSE

IsIterable(v) == v.t \in {"str", "list", "dict"}

\* the sequence of values a for loop or zip draws from v: the characters of a
\* str, the elements of a list, the keys of a dict
Iter(v) ==
  CASE v.t = "str" -> [i \in 1..Len(v.s) |-> VStr(Ch(v.s, i))]
    [] v.t = "list" -> v.l
    [] v.t = "dict" -> v.ks
    [] OTHER -> <<>>

\* len(v) of a sized value
PyLen(v) ==
  CASE v.t = "str" -> Len(v.s)
    [] v.t = "list" -> Len(v.l)
    [] v.t = "dict" -> Len(v.ks)
    [] OTHER -> 0

Digits == "0123456789"

IsDigit(c) == c # "" /\ IndexOf(Digits, c, 1) # 0

DigitVal(c) == IndexOf(Digits, c, 1) - 1

RECURSIVE IntStr(_)
\* str(n) of a natural number
IntStr(n) ==
  IF n < 10 THEN Ch(Digits, n + 1)
  ELSE IntStr(n \div 10) \o Ch(Digits, (n % 10) + 1)

-----------------------------------------------------------------------------
(* json.loads, float, str.strip, sorted *)

DecodeError == Raise("JSONDecodeError")

NoParse == [ok |-> FALSE, v |-> VNone, i |-> 0]

RECURSIVE SkipWs(_, _)
\* the position after the whitespace that starts at i
SkipWs(s, i) == IF Ch(s, i) = " " THEN SkipWs(s, i + 1) ELSE i

RECURSIVE DigitsEnd(_, _)
\* the position after the run of digits that starts at i
DigitsEnd(s, i) == IF IsDigit(Ch(s, i)) THEN DigitsEnd(s, i + 1) ELSE i

RECURSIVE DigitsVal(_, _, _)
\* the number the digits s[i..j-1] write
DigitsVal(s, i, j) ==
  IF i >= j THEN 0 ELSE DigitsVal(s, i, j - 1) * 10 + DigitVal(Ch(s, j - 1))

\* the thousandths the fraction digits s[i..j-1] write: .7 is 700, .25 is 250
FracVal(s, i, j) ==
  DigitVal(Ch(s, i)) * 100
  + (IF i + 1 < j THEN DigitVal(Ch(s, i + 1)) * 10 ELSE 0)
  + (IF i + 2 < j THEN DigitVal(Ch(s, i + 2)) ELSE 0)

Parsed(v, i) == [ok |-> TRUE, v |-> v, i |-> i]

\* the string literal that opens at i and closes at j
StringTo(s, i, j) == IF j = 0 THEN NoParse ELSE Parsed(VStr(Slice(s, i + 1, j - 1)), j + 1)

\* a JSON string literal at i (the texts hold no backslash)
ParseString(s, i) == StringTo(s, i, IndexOf(s, "\"", i + 1))

\* the end of the integer part that starts at i: 0 alone, or a digit run
IntEnd(s, i) == IF Ch(s, i) = "0" THEN i + 1 ELSE DigitsEnd(s, i)

\* the end of the fraction that may start at e: a point and at least one digit
FracEnd(s, e) ==
  IF Ch(s, e) = "." /\ IsDigit(Ch(s, e + 1)) THEN DigitsEnd(s, e + 1) ELSE e

\* the number whose integer part is s[i..e-1] and whose fraction ends at f
NumberTo(s, i, e, f) ==
  Parsed(VNum(DigitsVal(s, i, e) * 1000 + (IF f > e THEN FracVal(s, e + 1, f) ELSE 0)), f)

NumberFrom(s, i, e) == NumberTo(s, i, e, FracEnd(s, e))

\* a JSON number at i: 0 or a digit run without leading zero, then an optional
\* fraction of at least one digit; what follows is left to the caller
ParseNumber(s, i) == NumberFrom(s, i, IntEnd(s, i))

RECURSIVE ParseValue(_, _), ParseElems(_, _, _), AfterElem(_, _, _)
\* the elements of a JSON array from i on, acc holding those already read
ParseElems(s, i, acc) == AfterElem(s, acc, ParseValue(s, i))

\* r is the element just read: a ] ends the array, a comma goes on
AfterElem(s, acc, r) ==
  IF ~r.ok THEN NoParse
  ELSE IF Ch(s, SkipWs(s, r.i)) = "]"
       THEN Parsed(VList(Append(acc, r.v)), SkipWs(s, r.i) + 1)
  ELSE IF Ch(s, SkipWs(s, r.i)) = ","
       THEN ParseElems(s, SkipWs(s, SkipWs(s, r.i) + 1), Append(acc, r.v))
  ELSE NoParse

\* the array that opens before k, the first position that is no whitespace
ArrayFrom(s, k) ==
  IF Ch(s, k) = "]" THEN Parsed(VList(<<>>), k + 1) ELSE ParseElems(s, k, <<>>)

\* one JSON value at i: a string, an array or a number (texts are written
\* with the characters [ ] , " . space, digits and letters that spell no
\* JSON literal)
ParseValue(s, i) ==
  IF Ch(s, i) = "\"" THEN ParseString(s, i)
  ELSE IF Ch(s, i) = "[" THEN ArrayFrom(s, SkipWs(s, i + 1))
  ELSE IF IsDigit(Ch(s, i)) THEN ParseNumber(s, i)
  ELSE NoParse

\* r is the value read at the start of s: only whitespace may follow it
WholeText(s, r) ==
  IF r.ok /\ SkipWs(s, r.i) = Len(s) + 1 THEN r.v ELSE DecodeError

\* json.loads(s): the decoded value, or JSONDecodeError when s is no JSON
\* text or is followed by extra data
json_loads(s) == WholeText(s, ParseValue(s, SkipWs(s, 1)))

\* the float a str writes: digits s[1..e-1], then a point and digits up to f
FloatTo(s, e, f) ==
  IF f = Len(s) + 1 /\ (e > 1 \/ f > e + 1)
  THEN VNum(DigitsVal(s, 1, e) * 1000 + (IF f > e + 1 THEN FracVal(s, e + 1, f) ELSE 0))
  ELSE Raise("ValueError")

FloatFrom(s, e) == FloatTo(s, e, IF Ch(s, e) = "." THEN DigitsEnd(s, e + 1) ELSE e)

\* float(v): a number is kept; a str of digits with at most one point and at
\* least one digit is read; any other str is a ValueError, any other value a
\* TypeError
float(v) ==
  IF v.t = "num" THEN v
  ELSE IF v.t = "bool" THEN VNum(v.n * 1000)
  ELSE IF v.t # "str" THEN Raise("TypeError")
  ELSE FloatFrom(v.s, DigitsEnd(v.s, 1))

RECURSIVE SkipWsBack(_, _)
\* the position before the whitespace that ends at i
SkipWsBack(s, i) == IF Ch(s, i) = " " THEN SkipWsBack(s, i - 1) ELSE i

\* s.strip()
strip(s) == Slice(s, SkipWs(s, 1), SkipWsBack(s, Len(s)))

\* the printable ASCII characters in code-point order; the backquote, which
\* no string of the module can hold, has its place kept by a tab
CodeOrder ==
  " !\"#$%&'" \o "(" \o ")" \o "*" \o "+,-./0123456789:;<=>?@"
  \o "ABCDEFGHIJKLMNOPQRSTUVWXYZ[\\]^_\tabcdefghijklmnopqrstuvwxyz{|}~"

OrdTable == [c \in {Ch(CodeOrder, i) : i \in 1..Len(CodeOrder)} |-> IndexOf(CodeOrder, c, 1) + 31]

\* ord(c) of a printable ASCII character
Ord(c) == OrdTable[c]

RECURSIVE LessFrom(_, _, _)
\* a < b of two strs that agree before position i
LessFrom(a, b, i) ==
  IF i > Len(b) THEN FALSE
  ELSE IF i > Len(a) THEN TRUE
  ELSE IF Ch(a, i) = Ch(b, i) THEN LessFrom(a, b, i + 1)
  ELSE Ord(Ch(a, i)) < Ord(Ch(b, i))

\* a < b of two strs: by code point, a proper prefix first
StrLess(a, b) == LessFrom(a, b, 1)

\* how many strs of S are less than x
Rank(S, x) == Cardinality({y \in S : StrLess(y, x)})

\* sorted(S) of a set of strs: each str stands after the strs less than it
sorted(S) == [i \in 1..Cardinality(S) |-> CHOOSE x \in S : Rank(S, x) = i - 1]

\* str(v) and the text an f-string puts for v; the records of the model put
\* None, a str or a bool there
PyStr(v) ==
  CASE v.t = "str" -> v.s
    [] v.t = "none" -> "None"
    [] v.t = "bool" -> IF v.n = 1 THEN "True" ELSE "False"
    [] OTHER -> "?"

S(x) == VStr(x)

\* k in d
Has(d, k) == KeyIndex(d.ks, S(k), 1) # 0

\* d.get(k), d.get(k, default) and d[k] with a str key
Get(d, k) == DictGet(d, S(k), VNone)
GetOr(d, k, default) == DictGet(d, S(k), default)
Item(d, k) == DictGet(d, S(k), Raise("KeyError"))

\* a key of a dict must be hashable
Hashable(v) == v.t \in {"str", "num", "bool", "none"}

-----------------------------------------------------------------------------
(* extract_slug *)

Letters == "ABCDEFGHIJKLMNOPQRSTUVWXYZabcdefghijklmnopqrstuvwxyz"

IsLetter(c) == c # "" /\ IndexOf(Letters, c, 1) # 0

RECURSIVE AllSchemeChars(_, _)
\* every character of s[1..i] may stand in a scheme
AllSchemeChars(s, i) ==
  i = 0 \/ (/\ (IsLetter(Ch(s, i)) \/ IsDigit(Ch(s, i)) \/ Ch(s, i) = ".")
            /\ AllSchemeChars(s, i - 1))

\* the least of a set of positions, last when the set is empty
MinOr(P, last) == IF P = {} THEN last ELSE CHOOSE m \in P : \A q \in P : m <= q

\* min of the positions of / ? # from i on, len + 1 when there is none
NetlocEnd(s, i) == MinOr({IndexOf(s, c, i) : c \in {"/", "?", "#"}} \ {0}, Len(s) + 1)

RECURSIVE LastIndexOf(_, _, _)
\* str.rfind(c), 0 when c does not occur in s[1..i]
LastIndexOf(s, c, i) ==
  IF i < 1 THEN 0 ELSE IF Ch(s, i) = c THEN i ELSE LastIndexOf(s, c, i - 1)

\* c.lower() of the character that stands at k in Letters (0: no letter)
LowerChar(c, k) == IF k >= 1 /\ k <= 26 THEN Ch(Letters, k + 26) ELSE c

RECURSIVE LowerFrom(_, _)
LowerFrom(s, i) ==
  IF i > Len(s) THEN ""
  ELSE LowerChar(Ch(s, i), IndexOf(Letters, Ch(s, i), 1)) \o LowerFrom(s, i + 1)

\* s.lower()
Lower(s) == LowerFrom(s, 1)

\* urllib.parse.uses_params: the schemes whose last segment may carry ;params
UsesParams ==
  {"", "ftp", "hdl", "prospero", "http", "imap", "https", "shttp", "rtsp",
   "rtspu", "sip", "sips", "mms", "sftp", "tel"}

\* the scheme of u, lowered: the text before the first colon when it starts
\* with a letter and holds scheme characters only
SchemeAt(u, c) ==
  IF c > 1 /\ IsLetter(Ch(u, 1)) /\ AllSchemeChars(u, c - 1)
  THEN Lower(Slice(u, 1, c - 1)) ELSE ""

UrlScheme(u) == SchemeAt(u, IndexOf(u, ":", 1))

\* u without the scheme found before the colon at c
DropSchemeAt(u, c) ==
  IF c > 1 /\ IsLetter(Ch(u, 1)) /\ AllSchemeChars(u, c - 1)
  THEN Slice(u, c + 1, Len(u)) ELSE u

DropScheme(u) == DropSchemeAt(u, IndexOf(u, ":", 1))

\* u without its //netloc
DropNetloc(u) ==
  IF Slice(u, 1, 2) = "//" THEN Slice(u, NetlocEnd(u, 3), Len(u)) ELSE u

\* u.split(c, 1)[0] when c is in u, else u
Before(u, c) == IF IndexOf(u, c, 1) # 0 THEN Slice(u, 1, IndexOf(u, c, 1) - 1) ELSE u

\* _splitparams(u)[0] of a u whose last / is at sl: u up to the first ; of
\* its last segment
DropParamsAt(u, sl) ==
  IF IndexOf(u, ";", sl) # 0 THEN Slice(u, 1, IndexOf(u, ";", sl) - 1) ELSE u

DropParams(u) ==
  IF LastIndexOf(u, "/", Len(u)) = 0 THEN Before(u, ";")
  ELSE DropParamsAt(u, LastIndexOf(u, "/", Len(u)))

\* the path of the url whose scheme is scheme and whose rest is rest
PathOf(scheme, rest) == IF scheme \in UsesParams THEN DropParams(rest) ELSE rest

\* urlparse(url).path: the url without its scheme, its //netloc, its #fragment,
\* its ?query and, under a scheme of UsesParams, the ;params of its last segment
UrlPath(u) ==
  PathOf(UrlScheme(u), Before(Before(DropNetloc(DropScheme(u)), "#"), "?"))

RECURSIVE RunEnd(_, _)
\* the position after the run of characters other than / and ? that starts at i
RunEnd(s, i) ==
  IF i <= Len(s) /\ Ch(s, i) \notin {"/", "?"} THEN RunEnd(s, i + 1) ELSE i

RECURSIVE re_search(_, _, _)
\* re.search(prefix + '([^/?]+)', s) from position i on: group 1 of the
\* leftmost match (the longest run), None when nothing matches
re_search(prefix, s, i) ==
  IF i + Len(prefix) > Len(s) THEN VNone
  ELSE IF /\ Slice(s, i, i + Len(prefix) - 1) = prefix
          /\ RunEnd(s, i + Len(prefix)) > i + Len(prefix)
       THEN VStr(Slice(s, i + Len(prefix), RunEnd(s, i + Len(prefix)) - 1))
       ELSE re_search(prefix, s, i + 1)

EventPrefix == "/event/"
MarketPrefix == "/market/"

\* the search with the two patterns tried in the other order, which
\* C4_SlugOfPath tells from the search of line 11
SearchMarketFirst(path) ==
  IF re_search(MarketPrefix, path, 1).t # "none"
  THEN re_search(MarketPrefix, path, 1)
  ELSE re_search(EventPrefix, path, 1)

\* line 11: the event pattern first, the market pattern when it finds nothing
SearchPath(path) ==
  IF re_search(EventPrefix, path, 1).t # "none"
  THEN re_search(EventPrefix, path, 1)
  ELSE re_search(MarketPrefix, path, 1)

extract_slug(u) == SearchPath(UrlPath(u))

-----------------------------------------------------------------------------
(* get_answer_options, parse_outcome_prices *)

\* the set built at line 81: the stripped str() of each token's outcome
TokenOutcomes(tokens) ==
  {strip(PyStr(GetOr(tokens.l[i], "outcome", S("")))) : i \in 1..Len(tokens.l)}

\* d when the str decoded, otherwise the value the except branch leaves
DecodedOr(d, otherwise) == IF IsRaise(d) THEN otherwise ELSE d

\* lines 88-92 and 104-108: the outcomePrices field, decoded when it is a
\* str, [] when the str does not decode
DecodedPrices(raw) ==
  IF raw.t = "str" THEN DecodedOr(json_loads(raw.s), VList(<<>>)) ELSE raw

\* ["Option 1", ..., "Option n"]
OptionLabels(n) == VList([i \in 1..n |-> S("Option " \o IntStr(i))])

YesNo == VList(<<S("Yes"), S("No")>>)

\* lines 94-97: the labels that stand for the price entries alone
PriceCountOptions(prices) ==
  IF ~IsIterable(prices) THEN Raise("TypeError")
  ELSE IF PyLen(prices) = 2 THEN YesNo
  ELSE OptionLabels(PyLen(prices))

\* sorted(token_outcomes) as a list
SortedList(labels) == VList([i \in 1..Len(labels) |-> S(labels[i])])

\* lines 82-97: token_outcomes is the set of line 81
FromTokenOutcomes(market, token_outcomes) ==
  IF token_outcomes \ {""} # {}
  THEN SortedList(sorted(token_outcomes \ {""}))
  ELSE PriceCountOptions(DecodedPrices(GetOr(market, "outcomePrices", VList(<<>>))))

\* lines 81-97: tokens is market.get("tokens", [])
FromTokens(market, tokens) ==
  IF ~IsIterable(tokens) THEN Raise("TypeError")
  ELSE IF \E i \in 1..Len(Iter(tokens)) : Iter(tokens)[i].t # "dict"
  THEN Raise("AttributeError")
  ELSE FromTokenOutcomes(market, TokenOutcomes(tokens))

\* lines 72-78: o is market["outcomes"]
FromOutcomes(o) ==
  IF o.t = "str" THEN DecodedOr(json_loads(o.s), o) ELSE o

\* the chain with the tokens consulted before the outcomes field, which
\* C9_PriorityChain tells from the chain of lines 72-97
TokensBeforeOutcomes(market) ==
  IF Has(market, "tokens")
  THEN FromTokens(market, Item(market, "tokens"))
  ELSE IF Has(market, "outcomes")
  THEN FromOutcomes(Item(market, "outcomes"))
  ELSE FromTokens(market, VList(<<>>))

get_answer_options(market) ==
  IF Has(market, "outcomes")
  THEN FromOutcomes(Item(market, "outcomes"))
  ELSE FromTokens(market, GetOr(market, "tokens", VList(<<>>)))

RECURSIVE ZipEveryPair(_, _, _, _)
\* the pairing without the test of line 116, an empty label kept as a key,
\* which C10_PositionalPairing tells from the pairing of lines 113-117
ZipEveryPair(opts, prices, i, acc) ==
  IF i > Len(opts) \/ i > Len(prices) THEN acc
  ELSE IF IsRaise(float(prices[i])) THEN float(prices[i])
  ELSE IF ~Hashable(opts[i]) THEN Raise("TypeError")
  ELSE ZipEveryPair(opts, prices, i + 1, DictSet(acc, opts[i], float(prices[i])))

RECURSIVE ZipPrices(_, _, _, _), AddPrice(_, _, _, _, _)
\* the dict comprehension of lines 113-117 from pair i on, acc holding the
\* entries of the pairs before it
ZipPrices(opts, prices, i, acc) ==
  IF i > Len(opts) \/ i > Len(prices) THEN acc
  ELSE IF ~Truthy(opts[i]) THEN ZipPrices(opts, prices, i + 1, acc)
  ELSE AddPrice(opts, prices, i, acc, float(prices[i]))

\* the entry of pair i, f being float(price)
AddPrice(opts, prices, i, acc, f) ==
  IF IsRaise(f) THEN f
  ELSE IF ~Hashable(opts[i]) THEN Raise("TypeError")
  ELSE ZipPrices(opts, prices, i + 1, DictSet(acc, opts[i], f))

\* lines 112-119
PairPrices(prices, answer_options) ==
  IF IsRaise(answer_options) THEN answer_options
  ELSE IF prices.t = "list"
  THEN IF ~IsIterable(answer_options) THEN Raise("TypeError")
       ELSE ZipPrices(Iter(answer_options), prices.l, 1, VDict(<<>>, <<>>))
  ELSE prices

parse_outcome_prices(market) ==
  PairPrices(DecodedPrices(GetOr(market, "outcomePrices", VDict(<<>>, <<>>))),
             get_answer_options(market))

-----------------------------------------------------------------------------
(* format_market_data, format_event_data *)

RECURSIVE FirstRaise(_, _)
\* the first exception among the values vs, VNone when none raised: a dict
\* display evaluates its values in order and stops at the first that raises
FirstRaise(vs, i) ==
  IF i > Len(vs) THEN VNone
  ELSE IF IsRaise(vs[i]) THEN vs[i]
  ELSE FirstRaise(vs, i + 1)

\* r when it is an exception, otherwise v
RaisedOr(r, v) == IF IsRaise(r) THEN r ELSE v

\* {k1: v1, ...}: the dict, or the first exception raised by a value
DictOf(ks, vs) == RaisedOr(FirstRaise(vs, 1), VDict([i \in 1..Len(ks) |-> S(ks[i])], vs))

MarketKeys ==
  <<"type", "id", "question", "end_date", "answer_options", "current_prices",
    "active", "closed", "url">>

format_market_data(market) ==
  IF market.t # "dict" THEN Raise("TypeError")
  ELSE DictOf(MarketKeys,
    <<S("market"),
      Item(market, "id"),
      Item(market, "question"),
      Get(market, "endDate"),
      get_answer_options(market),
      parse_outcome_prices(market),
      Get(market, "active"),
      Get(market, "closed"),
      S("https://polymarket.com/market/" \o PyStr(Get(market, "slug")))>>)

EventKeys ==
  <<"type", "id", "title", "description", "end_date", "markets", "url", "image">>

\* the list of the values out, or the first exception among them
ListOf(out) == RaisedOr(FirstRaise(out, 1), VList(out))

\* [format_market_data(m) for m in event.get("markets", [])]
FormatMarkets(ms) ==
  IF ~IsIterable(ms) THEN Raise("TypeError")
  ELSE ListOf([i \in 1..Len(Iter(ms)) |-> format_market_data(Iter(ms)[i])])

format_event_data(event) ==
  IF event.t # "dict" THEN Raise("TypeError")
  ELSE DictOf(EventKeys,
    <<S("event"),
      Item(event, "id"),
      Item(event, "title"),
      GetOr(event, "description", S("")),
      Get(event, "endDate"),
      FormatMarkets(GetOr(event, "markets", VList(<<>>))),
      S("https://polymarket.com/event/" \o PyStr(Get(event, "slug"))),
      Get(event, "imageUrl")>>)

-----------------------------------------------------------------------------
(* format_market_text, format_human_readable *)

RECURSIVE JoinFrom(_, _, _)
JoinFrom(sep, lines, i) ==
  IF i > Len(lines) THEN ""
  ELSE IF i = Len(lines) THEN lines[i]
  ELSE lines[i] \o sep \o JoinFrom(sep, lines, i + 1)

\* sep.join(lines)
Join(sep, lines) == JoinFrom(sep, lines, 1)

\* the text of n tenths with one decimal
OneDecimal(n) == S(IntStr(n \div 10) \o "." \o IntStr(n % 10))

\* f"{price * 100:.1f}" of a price in thousandths; a str times 100 is a str,
\* which the format refuses, and None has no product
Percent(price) ==
  IF price.t = "num" THEN OneDecimal(price.n)
  ELSE IF price.t = "bool" THEN OneDecimal(price.n * 1000)
  ELSE IF price.t = "str" THEN Raise("ValueError")
  ELSE Raise("TypeError")

\* line 157, pct being the formatted percentage
LineOf(option, pct) ==
  IF IsRaise(pct) THEN pct
  ELSE S("> " \o PyStr(option) \o " (" \o pct.s \o "%)")

\* lines 156-157 for one option: the option's line
OptionLine(current_prices, option) ==
  IF current_prices.t # "dict" THEN Raise("AttributeError")
  ELSE IF ~Hashable(option) THEN Raise("TypeError")
  ELSE LineOf(option, Percent(DictGet(current_prices, option, VNum(0))))

RECURSIVE LinesOfPricedOptions(_, _, _, _)
\* the loop with an option that has no price left out instead of rendered at
\* 0.0%, which C8_OptionLines tells from the loop of lines 155-157
LinesOfPricedOptions(current_prices, opts, i, lines) ==
  IF i > Len(opts) THEN VList(lines)
  ELSE IF IsRaise(OptionLine(current_prices, opts[i]))
  THEN OptionLine(current_prices, opts[i])
  ELSE IF DictGet(current_prices, opts[i], VAbsent) = VAbsent
  THEN LinesOfPricedOptions(current_prices, opts, i + 1, lines)
  ELSE LinesOfPricedOptions(current_prices, opts, i + 1,
                            Append(lines, OptionLine(current_prices, opts[i])))

RECURSIVE OptionLines(_, _, _, _), AddLine(_, _, _, _, _)
\* the loop of lines 155-157 from option i on, lines holding what is appended
OptionLines(current_prices, opts, i, lines) ==
  IF i > Len(opts) THEN VList(lines)
  ELSE AddLine(current_prices, opts, i, lines, OptionLine(current_prices, opts[i]))

AddLine(current_prices, opts, i, lines, ln) ==
  IF IsRaise(ln) THEN ln
  ELSE OptionLines(current_prices, opts, i + 1, Append(lines, ln))

\* "\n".join(lines) of a list of strs, or the exception raised on the way
JoinLines(r) ==
  IF IsRaise(r) THEN r ELSE S(Join("\n", [i \in 1..Len(r.l) |-> r.l[i].s]))

\* lines 149-153
MarketHead(market) ==
  <<S("Market: " \o PyStr(Item(market, "question"))),
    S("Ends: " \o PyStr(Item(market, "end_date"))),
    S("Options:")>>

\* lines 155-159: options is market.get("answer_options", [])
TextWith(market, options) ==
  IF ~IsIterable(options) THEN Raise("TypeError")
  ELSE JoinLines(OptionLines(Item(market, "current_prices"), Iter(options), 1,
                             MarketHead(market)))

format_market_text(market) ==
  TextWith(market, GetOr(market, "answer_options", VList(<<>>)))

RECURSIVE MarketTexts(_, _, _), AddText(_, _, _, _)
\* the loop of lines 140-141 from market i on
MarketTexts(ms, i, output) ==
  IF i > Len(ms) THEN VList(output)
  ELSE AddText(ms, i, output, format_market_text(ms[i]))

AddText(ms, i, output, tx) ==
  IF IsRaise(tx) THEN tx
  ELSE MarketTexts(ms, i + 1, Append(output, tx))

\* lines 137-139
EventHead(data) ==
  <<S("Event: " \o PyStr(Item(data, "title"))),
    S("Ends: " \o PyStr(Item(data, "end_date"))),
    S("Markets:")>>

format_human_readable(data) ==
  IF Has(data, "error") THEN Item(data, "error")
  ELSE IF Item(data, "type") = S("event")
  THEN JoinLines(MarketTexts(Item(data, "markets").l, 1, EventHead(data)))
  ELSE format_market_text(data)

-----------------------------------------------------------------------------
(* json.dumps(result, indent=2, sort_keys=True) *)

RECURSIVE EscapeFrom(_, _)
EscapeFrom(s, i) ==
  IF i > Len(s) THEN ""
  ELSE LET c == Ch(s, i) IN
       (IF c = "\"" THEN "\\\"" ELSE IF c = "\\" THEN "\\\\"
        ELSE IF c = "\n" THEN "\\n" ELSE c)
       \o EscapeFrom(s, i + 1)

\* a JSON string literal: " and \ escaped, a newline as \n
JsonStr(s) == "\"" \o EscapeFrom(s, 1) \o "\""

RECURSIVE Serializable(_)
\* every key of every dict in v is a str, which is what sort_keys can order
\* among the records of the model
Serializable(v) ==
  /\ v.t \notin {"raise", "absent"}
  /\ \A i \in 1..Len(v.ks) : v.ks[i].t = "str"
  /\ \A i \in 1..Len(v.l) : Serializable(v.l[i])

\* the digits after the point of a float with f thousandths after it
Fraction(f) ==
  IF f % 100 = 0 THEN IntStr(f \div 100)
  ELSE IF f % 10 = 0 THEN IntStr(f \div 100) \o IntStr((f \div 10) % 10)
  ELSE IntStr(f \div 100) \o IntStr((f \div 10) % 10) \o IntStr(f % 10)

\* repr of a float given in thousandths: 700 is 0.7, 1000 is 1.0, 250 is 0.25
FloatRepr(n) == IntStr(n \div 1000) \o "." \o Fraction(n % 1000)

RECURSIVE Dumps(_, _), DumpItems(_, _, _)
\* the items of the dict v at the indentation ind, keys being its sorted keys
DumpItems(v, ind, keys) ==
  "{\n"
  \o Join(",\n", [i \in 1..Len(keys) |->
        ind \o "  " \o JsonStr(keys[i]) \o ": "
        \o Dumps(DictGet(v, S(keys[i]), VNone), ind \o "  ")])
  \o "\n" \o ind \o "}"

\* the text of v at the indentation ind
Dumps(v, ind) ==
  CASE v.t = "str" -> JsonStr(v.s)
    [] v.t = "num" -> FloatRepr(v.n)
    [] v.t = "bool" -> IF v.n = 1 THEN "true" ELSE "false"
    [] v.t = "list" ->
         IF v.l = <<>> THEN "[]"
         ELSE "[\n"
              \o Join(",\n", [i \in 1..Len(v.l) |-> ind \o "  " \o Dumps(v.l[i], ind \o "  ")])
              \o "\n" \o ind \o "]"
    [] v.t = "dict" ->
         IF v.ks = <<>> THEN "{}"
         ELSE DumpItems(v, ind, sorted({v.ks[i].s : i \in 1..Len(v.ks)}))
    [] OTHER -> "null"

json_dumps(v) == IF Serializable(v) THEN S(Dumps(v, "")) ELSE Raise("TypeError")


-----------------------------------------------------------------------------
(* The upstream payloads the runs draw from *)

\* the longest markets list of an event
MaxMarkets == 2

\* the most pieces a generated url is put together from
MaxPieces == 4

L2(a, b) == VList(<<S(a), S(b)>>)
L3(a, b, c) == VList(<<S(a), S(b), S(c)>>)
Token(label) == VDict(<<S("outcome")>>, <<label>>)

PresentField(f) == f[2].t # "absent"

\* the JSON object of the fields fs
RecordOf(fs) ==
  VDict([i \in 1..Len(fs) |-> S(fs[i][1])], [i \in 1..Len(fs) |-> fs[i][2]])

\* a JSON object of the fields whose value is not VAbsent
Record(fields) == RecordOf(SelectSeq(fields, PresentField))

OutcomesChoices ==
  {VAbsent, L2("A", "B"), L2("A", "A"), L2("", "B"), L3("A", "B", "C"),
   S("[\"A\",\"B\"]"), S("[\"A\","), S("\"AB\""), S("5")}

TokensChoices ==
  {VAbsent, VNone,
   VList(<<Token(S("Yes")), Token(S("No")), Token(S("Yes"))>>),
   VList(<<Token(S(" ")), VDict(<<>>, <<>>)>>),
   VList(<<Token(S(" B ")), Token(S("A"))>>)}

PricesChoices ==
  {VAbsent, VNone, L2("0.7", "0.3"), VList(<<VNum(700)>>), L3("0.5", "0.3", "0.2"),
   L2("x", "0.3"), S("[\"0.7\", \"0.3\"]"), S("[\"0.7\""),
   VDict(<<S("A"), S("B")>>, <<VNum(700), VNum(300)>>),
   VDict(<<S("Z")>>, <<S("0.7")>>)}

\* the optional fields the normalizers copy: all of them, or none
RestChoices ==
  {<<VAbsent, VAbsent, VAbsent, VAbsent>>,
   <<S("2025-01-01"), VBool(TRUE), VBool(FALSE), S("s")>>}

RawMarket(id, question, outcomes, tokens, prices, rest) ==
  Record(<< <<"id", id>>, <<"question", question>>, <<"outcomes", outcomes>>,
            <<"tokens", tokens>>, <<"outcomePrices", prices>>,
            <<"endDate", rest[1]>>, <<"active", rest[2]>>, <<"closed", rest[3]>>,
            <<"slug", rest[4]>> >>)

RawMarkets ==
  {RawMarket(id, q, o, tk, p, r) :
     id \in {VAbsent, S("m1")}, q \in {VAbsent, S("Q")}, o \in OutcomesChoices,
     tk \in TokensChoices, p \in PricesChoices, r \in RestChoices}

FullRest == <<S("2025-01-01"), VBool(TRUE), VBool(FALSE), S("s")>>

\* the markets an event embeds
SampleMarkets ==
  {RawMarket(S("m1"), S("Q"), VAbsent, VAbsent, L2("0.7", "0.3"), FullRest),
   RawMarket(S("m2"), VAbsent, VAbsent, VAbsent, VAbsent, FullRest),
   RawMarket(S("m3"), S("Q3"), L2("A", "B"), VAbsent, VList(<<VNum(700)>>), FullRest),
   RawMarket(S("m4"), S("Q4"), VAbsent,
             VList(<<Token(S("Yes")), Token(S("No"))>>),
             VDict(<<S("Z")>>, <<S("0.7")>>), FullRest)}

RECURSIVE SeqsUpTo(_, _)
\* the sequences of at most n elements of X
SeqsUpTo(X, n) ==
  IF n = 0 THEN {<<>>}
  ELSE LET P == SeqsUpTo(X, n - 1) IN P \cup {Append(s, x) : s \in P, x \in X}

MarketsChoices ==
  {VAbsent, VNone} \cup {VList(ms) : ms \in SeqsUpTo(SampleMarkets, MaxMarkets)}

RawEvent(id, title, markets, rest) ==
  Record(<< <<"id", id>>, <<"title", title>>, <<"markets", markets>>,
            <<"endDate", rest[1]>>, <<"slug", rest[4]>>,
            <<"description", rest[4]>>, <<"imageUrl", rest[4]>> >>)

RawEvents ==
  {RawEvent(id, title, ms, r) :
     id \in {VAbsent, S("e1")}, title \in {VAbsent, S("T")},
     ms \in MarketsChoices, r \in RestChoices}

OtherEvent == RawEvent(S("e2"), S("T2"), VAbsent, FullRest)
OtherMarket == RawMarket(S("m9"), S("Q9"), VAbsent, VAbsent, VAbsent, FullRest)

Response(status, body) == [status |-> status, body |-> body]
NoResponse == Response(0, VNone)

\* what the events endpoint may answer: a list of events under 200, or a
\* status that is no success
EventResponses ==
  {Response(200, VList(<<e>>)) : e \in RawEvents}
  \cup {Response(200, VList(<<e, OtherEvent>>)) :
          e \in {RawEvent(S("e1"), S("T"), VList(<<m>>), FullRest) : m \in SampleMarkets}}
  \cup {Response(200, VList(<<>>)), Response(404, VList(<<>>)),
        Response(500, VList(<<OtherEvent>>))}

MarketResponses ==
  {Response(200, VList(<<m>>)) : m \in RawMarkets}
  \cup {Response(200, VList(<<m, OtherMarket>>)) : m \in SampleMarkets}
  \cup {Response(200, VList(<<>>)), Response(404, VList(<<>>)),
        Response(500, VList(<<OtherMarket>>))}

Script == "fetch_polymarket.py"

\* the urls of the command-line runs
Urls ==
  {"https://polymarket.com/event/a?tid=1", "/market/b", "https://polymarket.com/"}

Argvs ==
  {<<Script>>} \cup {<<Script, u>> : u \in Urls}
  \cup {<<Script, "/market/b", "x">>}

\* the pieces the generated urls are put together from
UrlPieces == {"https://h", "/event/", "/market/", "/", "?", "#", ";", "a", "b"}

-----------------------------------------------------------------------------
(* fetch_polymarket_data and the command line *)

UsageText == "Usage: python fetch_polymarket.py <polymarket_url>"
HumanHeader == "\nHuman-readable format:"

ErrorResult(msg) == VDict(<<S("error")>>, <<S(msg)>>)
InvalidUrl == ErrorResult("Invalid Polymarket URL format")
NotFound == ErrorResult("No matching event or market found")

\* the test without the status, which C3_ResultByResponse tells from the
\* test of lines 26 and 36
FoundWhateverStatus(resp) == Truthy(resp.body)

\* line 26 and line 36: status_code == 200 and response.json()
Found(resp) == resp.status = 200 /\ Truthy(resp.body)

Traceback(e) == "Traceback (most recent call last): " \o e.s

\* an uncaught exception ends the process: traceback on stderr, status 1
Abort(e) ==
  /\ pc' = "aborted"
  /\ exception' = e
  /\ stderr' = Append(stderr, Traceback(e))
  /\ exit_code' = 1

\* fetch_polymarket_data returns r to line 167
Return(r) ==
  /\ pc' = "print_json"
  /\ result' = r
  /\ UNCHANGED <<exception, stderr, exit_code>>

\* the outcome of `return f(...)`: the value, or the exception f raised
ReturnOrAbort(r) == IF IsRaise(r) THEN Abort(r) /\ UNCHANGED result ELSE Return(r)

\* lines 163-165: a wrong argument count prints the usage and exits with 1
Usage ==
  /\ pc = "start"
  /\ Len(argv) # 2
  /\ stdout' = Append(stdout, UsageText)
  /\ exit_code' = 1
  /\ pc' = "exited"
  /\ UNCHANGED <<argv, pieces, url, slug, calls, inflight, event_response,
                 market_response, result, exception, stderr, transport_failed>>

\* line 167: the call of fetch_polymarket_data(sys.argv[1])
CallFetch ==
  /\ pc = "start"
  /\ Len(argv) = 2
  /\ url' = argv[2]
  /\ pc' = "fetch"
  /\ UNCHANGED <<argv, pieces, slug, calls, inflight, event_response,
                 market_response, result, exception, stdout, stderr, exit_code,
                 transport_failed>>

\* the step without the test of line 17: the requests go out for any url,
\* which C2_CallSequence tells from the step of lines 16-18
ExtractSlugUnchecked ==
  /\ pc = "fetch"
  /\ slug' = extract_slug(url)
  /\ pc' = "events_get"
  /\ UNCHANGED <<argv, pieces, url, calls, inflight, event_response,
                 market_response, result, exception, stdout, stderr, exit_code,
                 transport_failed>>

\* lines 16-18
ExtractSlug ==
  /\ pc = "fetch"
  /\ slug' = extract_slug(url)
  /\ IF ~Truthy(slug')
     THEN Return(InvalidUrl)
     ELSE /\ pc' = "events_get"
          /\ UNCHANGED <<result, exception, stderr, exit_code>>
  /\ UNCHANGED <<argv, pieces, url, calls, inflight, event_response,
                 market_response, stdout, transport_failed>>

\* lines 21-24: the events request is sent
EventsRequest ==
  /\ pc = "events_get"
  /\ calls' = Append(calls, "events")
  /\ inflight' = "events"
  /\ pc' = "events_wait"
  /\ UNCHANGED <<argv, pieces, url, slug, event_response, market_response,
                 result, exception, stdout, stderr, exit_code, transport_failed>>

\* lines 24-28: the events response arrives
EventsResponse ==
  /\ pc = "events_wait"
  /\ \E resp \in EventResponses :
       /\ event_response' = resp
       /\ inflight' = "none"
       /\ IF Found(resp)
          THEN ReturnOrAbort(format_event_data(resp.body.l[1]))
          ELSE /\ pc' = "markets_get"
               /\ UNCHANGED <<result, exception, stderr, exit_code>>
  /\ UNCHANGED <<argv, pieces, url, slug, calls, market_response, stdout,
                 transport_failed>>

\* requests.get (or response.json()) raises: nothing handles it
TransportFailure ==
  /\ pc \in {"events_wait", "markets_wait"}
  /\ inflight' = "none"
  /\ transport_failed' = TRUE
  /\ Abort(Raise("ConnectionError"))
  /\ UNCHANGED <<argv, pieces, url, slug, calls, event_response,
                 market_response, result, stdout>>

\* lines 31-34: the markets request is sent
MarketsRequest ==
  /\ pc = "markets_get"
  /\ calls' = Append(calls, "markets")
  /\ inflight' = "markets"
  /\ pc' = "markets_wait"
  /\ UNCHANGED <<argv, pieces, url, slug, event_response, market_response,
                 result, exception, stdout, stderr, exit_code, transport_failed>>

\* lines 34-40: the markets response arrives
MarketsResponse ==
  /\ pc = "markets_wait"
  /\ \E resp \in MarketResponses :
       /\ market_response' = resp
       /\ inflight' = "none"
       /\ IF Found(resp)
          THEN ReturnOrAbort(format_market_data(resp.body.l[1]))
          ELSE Return(NotFound)
  /\ UNCHANGED <<argv, pieces, url, slug, calls, event_response, stdout,
                 transport_failed>>

\* line 168, text being json.dumps(result, indent=2, sort_keys=True)
PrintJsonText(text) ==
  IF IsRaise(text)
  THEN Abort(text) /\ UNCHANGED stdout
  ELSE /\ stdout' = Append(stdout, text.s)
       /\ pc' = "print_human"
       /\ UNCHANGED <<exception, stderr, exit_code>>

PrintJson ==
  /\ pc = "print_json"
  /\ PrintJsonText(json_dumps(result))
  /\ UNCHANGED <<argv, pieces, url, slug, calls, inflight, event_response,
                 market_response, result, transport_failed>>

\* lines 169-170 and the normal end of the process, text being
\* format_human_readable(result)
PrintHumanText(text) ==
  IF IsRaise(text)
  THEN Abort(text) /\ stdout' = Append(stdout, HumanHeader)
  ELSE /\ stdout' = stdout \o <<HumanHeader, text.s>>
       /\ pc' = "exited"
       /\ exit_code' = 0
       /\ UNCHANGED <<exception, stderr>>

PrintHuman ==
  /\ pc = "print_human"
  /\ PrintHumanText(format_human_readable(result))
  /\ UNCHANGED <<argv, pieces, url, slug, calls, inflight, event_response,
                 market_response, result, transport_failed>>

Idle ==
  /\ pieces = <<>> /\ url = "" /\ slug = VNone /\ calls = <<>>
  /\ inflight = "none"
  /\ event_response = NoResponse /\ market_response = NoResponse
  /\ result = VNone /\ exception = VNone
  /\ stdout = <<>> /\ stderr = <<>> /\ exit_code = -1
  /\ transport_failed = FALSE

\* one run of the script from the command line
Init == pc = "start" /\ argv \in Argvs /\ Idle

Next ==
  \/ Usage
  \/ CallFetch
  \/ ExtractSlug
  \/ EventsRequest
  \/ EventsResponse
  \/ MarketsRequest
  \/ MarketsResponse
  \/ TransportFailure
  \/ PrintJson
  \/ PrintHuman

Spec == Init /\ [][Next]_vars

\* a url is put together piece by piece and handed to fetch_polymarket_data
AddPiece ==
  /\ pc = "build"
  /\ Len(pieces) < MaxPieces
  /\ \E p \in UrlPieces : pieces' = Append(pieces, p) /\ url' = url \o p
  /\ UNCHANGED <<pc, argv, slug, calls, inflight, event_response,
                 market_response, result, exception, stdout, stderr, exit_code,
                 transport_failed>>

CallFetchUrl ==
  /\ pc = "build"
  /\ pc' = "fetch"
  /\ UNCHANGED <<argv, pieces, url, slug, calls, inflight, event_response,
                 market_response, result, exception, stdout, stderr, exit_code,
                 transport_failed>>

InitSlug == pc = "build" /\ argv = <<Script>> /\ Idle

NextSlug == AddPiece \/ CallFetchUrl \/ ExtractSlug

SpecSlug == InitSlug /\ [][NextSlug]_vars


-----------------------------------------------------------------------------
(* Properties: what the checks below speak of *)

IsMarket(r) == Item(r, "type") = S("market")
IsEvent(r) == Item(r, "type") = S("event")

\* fetch_polymarket_data has returned a record (or an error record)
Returned == result # VNone

\* the events call came back with status 200 and a non-empty list
EventsYielded ==
  /\ event_response # NoResponse
  /\ event_response.status = 200
  /\ event_response.body.l # <<>>

MarketsYielded ==
  /\ market_response # NoResponse
  /\ market_response.status = 200
  /\ market_response.body.l # <<>>

\* the raw market the markets branch normalizes
RawOfMarket == market_response.body.l[1]

\* the markets branch returned its normalization
MarketReturned == Returned /\ MarketsYielded /\ IsMarket(result)

\* the market records of a result: itself, or the markets an event embeds
MarketRecords(r) ==
  IF IsMarket(r) THEN {r}
  ELSE IF IsEvent(r) THEN {Item(r, "markets").l[i] : i \in 1..Len(Item(r, "markets").l)}
  ELSE {}

\* k in opts, as Python decides it for a list, a dict or a str
ElementOf(k, opts) ==
  \/ opts.t \in {"list", "dict"} /\ \E i \in 1..Len(Iter(opts)) : Iter(opts)[i] = k
  \/ /\ opts.t = "str" /\ k.t = "str"
     /\ \E i \in 1..Len(opts.s) + 1 : Slice(opts.s, i, i + Len(k.s) - 1) = k.s

Keys(d) == IF d.t = "dict" THEN {d.ks[i] : i \in 1..Len(d.ks)} ELSE {}

\* C1: every key of current_prices of every market record produced is an
\* element of that record's answer_options
C1_NoOrphanPriceKey ==
  \A m \in MarketRecords(result) :
    \A k \in Keys(Item(m, "current_prices")) : ElementOf(k, Item(m, "answer_options"))

-----------------------------------------------------------------------------

\* what holds of the calls at every moment: at most two, events first, the
\* markets call only after an events response that yielded nothing
CallOrder ==
  /\ Len(calls) <= 2
  /\ calls \in {<<>>, <<"events">>, <<"events", "markets">>}
  /\ Len(calls) = 2 => event_response # NoResponse /\ ~EventsYielded
  /\ inflight = "markets" => event_response # NoResponse
  /\ inflight # "none" => calls[Len(calls)] = inflight

\* fetch_polymarket_data is over: it returned, or an exception left it
FetchOver == Returned \/ exception # VNone

\* C2 as stated: no call without a slug; [events] when the events query
\* yielded data; [events, markets] in every other run
C2_CallSequence_Original ==
  /\ CallOrder
  /\ FetchOver =>
       IF slug = VNone THEN calls = <<>> /\ Has(result, "error")
       ELSE IF EventsYielded THEN calls = <<"events">>
       ELSE calls = <<"events", "markets">>

\* C2, amended: as stated for the runs whose events call returns a response;
\* when the events call itself fails, the run ends with [events] alone
C2_CallSequence ==
  /\ CallOrder
  /\ FetchOver =>
       IF slug = VNone THEN calls = <<>> /\ Has(result, "error")
       ELSE IF event_response = NoResponse THEN calls = <<"events">> /\ transport_failed
       ELSE IF EventsYielded THEN calls = <<"events">>
       ELSE calls = <<"events", "markets">>

C2_Witness ==
  /\ pc = "exited" /\ calls = <<"events", "markets">> /\ MarketReturned
  /\ event_response.status = 200

-----------------------------------------------------------------------------

\* C3: with a valid slug the result is the Event normalization of the first
\* events entry when the events response yielded data, else the Market
\* normalization of the first markets entry when that response yielded data,
\* else exactly the not-found record; when the call ends by an exception
\* without a transport failure, the exception is the one that normalization
\* raised; an error record holds no other key
C3_ResultByResponse ==
  /\ Returned /\ slug # VNone =>
       IF EventsYielded THEN result = format_event_data(event_response.body.l[1])
       ELSE IF MarketsYielded THEN result = format_market_data(market_response.body.l[1])
       ELSE /\ result = VDict(<<S("error")>>, <<S("No matching event or market found")>>)
            /\ market_response # NoResponse
  /\ ~Returned /\ exception # VNone /\ ~transport_failed =>
       IF EventsYielded THEN exception = format_event_data(event_response.body.l[1])
       ELSE MarketsYielded /\ exception = format_market_data(market_response.body.l[1])
  /\ Returned /\ Has(result, "error") => result.ks = <<S("error")>>
  /\ Returned /\ ~Has(result, "error") => IsEvent(result) \/ IsMarket(result)

C3_Witness ==
  /\ Returned /\ slug # VNone /\ ~EventsYielded /\ ~MarketsYielded
  /\ event_response.status = 500 /\ market_response.status = 200

-----------------------------------------------------------------------------

EventText == "/event/"
MarketText == "/market/"

\* where a slug ends
Stops == {"", "/", "?"}

\* the places of s where prefix is followed by a slug of one character or more
Occurrences(s, prefix) ==
  {i \in 1..Len(s) :
     /\ Slice(s, i, i + Len(prefix) - 1) = prefix
     /\ Ch(s, i + Len(prefix)) \notin Stops}

Leftmost(P) == CHOOSE i \in P : \A j \in P : i <= j

\* the characters of s from place a up to the next / or ? or the end
SegmentFrom(s, a) ==
  Slice(s, a, (CHOOSE j \in a..Len(s) + 1 :
                 /\ Ch(s, j) \in Stops
                 /\ \A k \in a..j - 1 : Ch(s, k) \notin Stops) - 1)

\* the slug the text s carries, the event prefix first
SlugIn(s) ==
  IF Occurrences(s, EventText) # {}
  THEN VStr(SegmentFrom(s, Leftmost(Occurrences(s, EventText)) + Len(EventText)))
  ELSE IF Occurrences(s, MarketText) # {}
  THEN VStr(SegmentFrom(s, Leftmost(Occurrences(s, MarketText)) + Len(MarketText)))
  ELSE VNone

\* extract_slug has run on url
Extracted == pc \notin {"start", "build", "fetch"}

\* C4 as stated: the slug is the one the URL text carries, and the
\* invalid-URL error is returned exactly when there is none
C4_SlugOfUrl_Original ==
  Extracted =>
    /\ slug = SlugIn(url)
    /\ (result = VDict(<<S("error")>>, <<S("Invalid Polymarket URL format")>>))
         <=> (slug = VNone)

\* C4, amended: the slug is the one the path component of the URL carries
\* (the URL without scheme, host, parameters, query and fragment), and the
\* invalid-URL error is returned exactly when there is none
C4_SlugOfPath ==
  Extracted =>
    /\ slug = SlugIn(UrlPath(url))
    /\ (result = VDict(<<S("error")>>, <<S("Invalid Polymarket URL format")>>))
         <=> (slug = VNone)

\* a URL whose path carries both prefixes, the market one first
C4_Witness ==
  /\ Extracted
  /\ Occurrences(UrlPath(url), EventText) # {}
  /\ Occurrences(UrlPath(url), MarketText) # {}
  /\ Leftmost(Occurrences(UrlPath(url), MarketText))
       < Leftmost(Occurrences(UrlPath(url), EventText))
  /\ slug # VStr(SegmentFrom(UrlPath(url),
                 Leftmost(Occurrences(UrlPath(url), MarketText)) + Len(MarketText)))
  /\ slug # VNone
-----------------------------------------------------------------------------

\* v is text that does not decode as JSON
Malformed(v) == v.t = "str" /\ IsRaise(json_loads(v.s))

\* C5: a raw market whose textual outcomes does not decode is normalized
\* with empty answer_options, one whose textual outcomePrices does not decode
\* with empty current_prices, and neither failure to decode is raised
C5_MalformedIsEmpty ==
  /\ MarketReturned /\ Malformed(Get(RawOfMarket, "outcomes")) =>
       Item(result, "answer_options") = VList(<<>>)
  /\ MarketReturned /\ Malformed(Get(RawOfMarket, "outcomePrices")) =>
       Item(result, "current_prices") = VDict(<<>>, <<>>)
  /\ exception # Raise("JSONDecodeError")

-----------------------------------------------------------------------------

RequiredOf(record, fields) == \A i \in 1..Len(fields) : Has(record, fields[i])

\* the raw record the run normalizes, with its required fields, lacks none:
\* an event has id and title and each market it embeds id and question, a
\* market has id and question
NothingRequiredMissing ==
  IF EventsYielded
  THEN /\ RequiredOf(event_response.body.l[1], <<"id", "title">>)
       /\ \A i \in 1..Len(Iter(GetOr(event_response.body.l[1], "markets", VList(<<>>)))) :
            RequiredOf(Iter(Get(event_response.body.l[1], "markets"))[i],
                       <<"id", "question">>)
  ELSE MarketsYielded => RequiredOf(RawOfMarket, <<"id", "question">>)

\* C6: without a transport failure a run is aborted by an uncaught failure
\* only when a required field is absent
C6_OnlyMissingFieldAborts ==
  pc = "aborted" /\ ~transport_failed =>
    /\ ~NothingRequiredMissing
    /\ exception = Raise("KeyError")

-----------------------------------------------------------------------------

\* C7: a wrong argument count writes the usage to standard error and nothing
\* to standard output, exits with 1 and makes no call; with one argument the
\* JSON text of the result is the first thing on standard output
C7_UsageAndOrder ==
  /\ Len(argv) # 2 /\ pc # "start" =>
       /\ stderr = <<"Usage: python fetch_polymarket.py <polymarket_url>">>
       /\ stdout = <<>>
       /\ exit_code = 1 /\ pc = "exited"
       /\ calls = <<>>
  /\ Len(argv) = 2 /\ stdout # <<>> =>
       /\ stdout[1] = json_dumps(result).s
       /\ \A i \in 2..Len(stdout) : stdout[i] # stdout[1]

-----------------------------------------------------------------------------

\* the run printed its rendering and ended normally
Rendered == pc = "exited" /\ exit_code = 0 /\ Len(stdout) = 3

PriceOf(m, option) == DictGet(Item(m, "current_prices"), option, VAbsent)

\* the one line of an option: at 0.0% when current_prices has no entry for it
ExpectedOptionLine(m, option) ==
  "> " \o PyStr(option) \o " ("
    \o (IF PriceOf(m, option) = VAbsent THEN "0.0" ELSE Percent(PriceOf(m, option)).s)
    \o "%)"

\* question line, end-date line, heading, then one line per answer option
ExpectedLines(m) ==
  <<"Market: " \o PyStr(Item(m, "question")),
    "Ends: " \o PyStr(Item(m, "end_date")),
    "Options:">>
  \o [i \in 1..Len(Iter(Item(m, "answer_options"))) |->
        ExpectedOptionLine(m, Iter(Item(m, "answer_options"))[i])]

ExpectedMarketText(m) == Join("\n", ExpectedLines(m))

ExpectedEventText(e) ==
  Join("\n",
       <<"Event: " \o PyStr(Item(e, "title")),
         "Ends: " \o PyStr(Item(e, "end_date")),
         "Markets:">>
       \o [i \in 1..Len(Item(e, "markets").l) |->
             ExpectedMarketText(Item(e, "markets").l[i])])

\* C8: the text of a market is its question line, its end-date line and the
\* heading followed by exactly one line per element of answer_options in
\* that order, an option without a price at 0.0%; the text of an error
\* record is its message; the text of an event is its head followed by the
\* text of each embedded market in order
C8_OptionLines ==
  Rendered =>
    stdout[3] =
      IF Has(result, "error") THEN Item(result, "error").s
      ELSE IF IsEvent(result) THEN ExpectedEventText(result)
      ELSE ExpectedMarketText(result)

\* a market rendered with an option that has no price and one that has
C8_Witness ==
  /\ Rendered /\ IsMarket(result)
  /\ \E i, j \in 1..Len(Iter(Item(result, "answer_options"))) :
       /\ PriceOf(result, Iter(Item(result, "answer_options"))[i]) = VAbsent
       /\ PriceOf(result, Iter(Item(result, "answer_options"))[j]) # VAbsent

-----------------------------------------------------------------------------

\* the outcome labels of the tokens as they stand, the empty one apart
LabelsAsGiven(tokens) ==
  {PyStr(GetOr(Iter(tokens)[i], "outcome", S(""))) : i \in 1..Len(Iter(tokens))} \ {""}

\* the outcome labels of the tokens without the white space around them, the
\* empty one apart
LabelsStripped(tokens) ==
  {strip(PyStr(GetOr(Iter(tokens)[i], "outcome", S("")))) : i \in 1..Len(Iter(tokens))}
    \ {""}

\* opts lists each of the labels once, in ascending order
ListsInOrder(opts, labels) ==
  /\ opts.t = "list"
  /\ \A i \in 1..Len(opts.l) : opts.l[i].t = "str" /\ opts.l[i].s \in labels
  /\ \A l \in labels : \E i \in 1..Len(opts.l) : opts.l[i].s = l
  /\ \A i, j \in 1..Len(opts.l) : i < j => StrLess(opts.l[i].s, opts.l[j].s)

\* the number of price entries of a raw market
PriceEntries(m) == PyLen(DecodedPrices(GetOr(m, "outcomePrices", VList(<<>>))))

\* branches (2) to (4) of the chain, labels being the token labels
BelowOutcomes(opts, labels, n) ==
  IF labels # {} THEN ListsInOrder(opts, labels)
  ELSE IF n = 2 THEN opts = VList(<<S("Yes"), S("No")>>)
  ELSE opts = VList([i \in 1..n |-> S("Option " \o IntStr(i))])

\* C9 as stated: an outcomes field gives its decoded list when it is the text
\* of a list and itself otherwise; without one, the token labels that are
\* not empty, each once and sorted, when there is one; else Yes and No for
\* two price entries; else Option 1 .. Option n for n price entries
C9_PriorityChain_Original ==
  MarketReturned =>
    IF Has(RawOfMarket, "outcomes")
    THEN Item(result, "answer_options") =
           IF /\ Item(RawOfMarket, "outcomes").t = "str"
              /\ json_loads(Item(RawOfMarket, "outcomes").s).t = "list"
           THEN json_loads(Item(RawOfMarket, "outcomes").s)
           ELSE Item(RawOfMarket, "outcomes")
    ELSE BelowOutcomes(Item(result, "answer_options"),
                       LabelsAsGiven(GetOr(RawOfMarket, "tokens", VList(<<>>))),
                       PriceEntries(RawOfMarket))

\* C9, amended: an outcomes field gives its decoded value whenever it is text
\* that decodes as JSON, a list or not, and itself otherwise; the token
\* labels are taken without the white space around them, those that are
\* empty then left out; the rest as stated
C9_PriorityChain ==
  MarketReturned =>
    IF Has(RawOfMarket, "outcomes")
    THEN Item(result, "answer_options") =
           IF /\ Item(RawOfMarket, "outcomes").t = "str"
              /\ ~IsRaise(json_loads(Item(RawOfMarket, "outcomes").s))
           THEN json_loads(Item(RawOfMarket, "outcomes").s)
           ELSE Item(RawOfMarket, "outcomes")
    ELSE BelowOutcomes(Item(result, "answer_options"),
                       LabelsStripped(GetOr(RawOfMarket, "tokens", VList(<<>>))),
                       PriceEntries(RawOfMarket))

\* a market with an outcomes field, tokens that carry labels and price
\* entries: the outcomes field decides
C9_Witness ==
  /\ MarketReturned
  /\ Has(RawOfMarket, "outcomes")
  /\ LabelsStripped(GetOr(RawOfMarket, "tokens", VList(<<>>))) # {}
  /\ PriceEntries(RawOfMarket) = 2
  /\ Item(result, "answer_options") = VList(<<S("A"), S("B"), S("C")>>)

-----------------------------------------------------------------------------

\* the positions at which an option and a price are paired
Paired(opts, prices) ==
  {i \in 1..Len(opts) : i <= Len(prices) /\ Truthy(opts[i])}

\* every paired position has its entry, and there is no other entry
MapsEachPosition(cp, opts, prices) ==
  /\ \A i \in Paired(opts, prices) : DictGet(cp, opts[i], VAbsent) = float(prices[i])
  /\ \A k \in Keys(cp) : \E i \in Paired(opts, prices) : opts[i] = k

\* every paired position whose label does not come again at a later paired
\* position has its entry, and there is no other entry
MapsLastPosition(cp, opts, prices) ==
  /\ \A i \in Paired(opts, prices) :
       (\A j \in Paired(opts, prices) : j > i => opts[j] # opts[i])
         => DictGet(cp, opts[i], VAbsent) = float(prices[i])
  /\ \A k \in Keys(cp) : \E i \in Paired(opts, prices) : opts[i] = k

\* the outcomePrices field of the raw market, decoded when it is text
PricesOfMarket == DecodedPrices(GetOr(RawOfMarket, "outcomePrices", VDict(<<>>, <<>>)))

\* C10 as stated: a list of prices is paired by position with the answer
\* options the record reports, every position below both lengths with a
\* non-empty label giving the entry option i -> price i, and no other entry;
\* a mapping is returned unchanged
C10_PositionalPairing_Original ==
  /\ MarketReturned /\ PricesOfMarket.t = "list" =>
       /\ Item(result, "current_prices").t = "dict"
       /\ MapsEachPosition(Item(result, "current_prices"),
                           Iter(Item(result, "answer_options")), PricesOfMarket.l)
  /\ MarketReturned /\ Get(RawOfMarket, "outcomePrices").t = "dict" =>
       Item(result, "current_prices") = Get(RawOfMarket, "outcomePrices")

\* C10, amended: as stated, but when a label stands at several paired
\* positions its entry is the price of the last of them
C10_PositionalPairing ==
  /\ MarketReturned /\ PricesOfMarket.t = "list" =>
       /\ Item(result, "current_prices").t = "dict"
       /\ MapsLastPosition(Item(result, "current_prices"),
                           Iter(Item(result, "answer_options")), PricesOfMarket.l)
  /\ MarketReturned /\ Get(RawOfMarket, "outcomePrices").t = "dict" =>
       Item(result, "current_prices") = Get(RawOfMarket, "outcomePrices")

\* a market whose first option has an empty label: only the second is paired
C10_Witness ==
  /\ MarketReturned /\ PricesOfMarket.t = "list"
  /\ Len(Iter(Item(result, "answer_options"))) = 2
  /\ ~Truthy(Iter(Item(result, "answer_options"))[1])
  /\ Item(result, "current_prices") = VDict(<<S("B")>>, <<VNum(300)>>)


====
